---- MODULE Spec2Model ----
(***************************************************************************)
(* A model of text-match-cut (src/app.py).                                 *)
(*                                                                         *)
(*  Spec      the /generate route and generate_video: request validation,  *)
(*            font discovery, the snippet-pool loop, the frame loop with   *)
(*            its per-frame font retry loop, and the encoder hand-over.    *)
(*  SpecLive  Spec with the steps of the request taken when they can be.   *)
(*  SpecFont  get_random_font applied to drawn arguments.                  *)
(*  SpecFrame create_text_image_frame applied to drawn arguments, twice,   *)
(*            so that two calls can be compared.                           *)
(*  SpecText  one call of a text source, with the arguments generate_video *)
(*            passes, and the append to the snippet pool that follows it.  *)
(*                                                                         *)
(* Lengths of create_text_image_frame are exact rationals, written as      *)
(* integers in units of 1/Unit pixel.                                      *)
(*                                                                         *)
(* A local variable of generate_video is tracked from its assignment to    *)
(* the last line that can read that value; from there on the model holds   *)
(* its initial value again (ai_mode and generation_attempts after the pool *)
(* loop, current_font_path after the handlers of an attempt).  The list    *)
(* frames is modelled by its length.                                       *)
(***************************************************************************)
EXTENDS Integers, Sequences, FiniteSets

(***************************************************************************)
(* Bounds of the model.                                                    *)
(***************************************************************************)
\* fps of the requests drawn is 0..MaxFps
MaxFps == 5
\* duration of the requests drawn is 0..MaxDuration
MaxDuration == 2
\* candidate font files a font directory may hold
NumFonts == 5
\* distinct snippet values a text source may hand back
NumSnippets == 2

(***************************************************************************)
(* Program constants.                                                      *)
(***************************************************************************)
MAX_FONT_RETRIES_PER_FRAME == 5
unique_text_count == 2
\* route validation: 1 <= fps <= 60, 1 <= duration <= 60
MinRate == 1
MaxRate == 60
\* the divisor of the progress report: frame_num % (total_frames // 10)
ProgressSteps == 10

\* fm.findfont's fallback path, a font file that need not be in font_paths
FallbackPath == 0
\* get_random_font's "nothing found" return value
None == -1
\* not a return value: an exception leaving get_random_font
Raised == -2
\* not a return value: get_random_font has not been called
NotCalled == -3

Fonts == 1..NumFonts
Snippets == 1..NumSnippets

\* results of one call of a text source: a snippet, or the failure (None, -1)
SnippetFailure == 0

VARIABLES
    \* ---- generate() / generate_video ----
    pc,                    \* position in the request
    retval,                \* what generate_video returned ("" while running)
    fps, duration_seconds, \* params['fps'], params['duration']
    ai_mode,               \* "gemini" | "mistral" | "random": the branch the pool loop takes
    font_paths,            \* the discovered font files
    lookup,                \* what fm.findfont does in this process: "path" | "empty" | "throws"
    text_snippets_pool, generation_attempts,
    total_frames, frames, frame_num,
    failed_fonts, font_retries, frame_generated, current_font_path,
    \* ---- history of the request (not program state) ----
    errored,               \* fonts on which create_text_image_frame raised in this request
    fallback_tried,        \* a compositing attempt was made with FallbackPath
    cand_attempts,         \* this frame's attempts with a font of font_paths - failed_fonts
    fallback_attempts,     \* this frame's attempts with the fallback branch's font
    exhausted,             \* a frame left its retry loop without being generated
    encoder_frames,        \* len(frames) handed to ImageSequenceClip, -1 before
    ai_call_failed,        \* the AI source returned (None, -1) in the last pool attempt
    \* ---- one call of get_random_font (SpecFont) ----
    rf_paths, rf_exclude,  \* its arguments font_paths and exclude_list
    rf_how,                \* what fm.findfont does during the call
    rf_result,             \* what the call returned, NotCalled before
    \* ---- calls of create_text_image_frame (SpecFrame) ----
    cf_args,               \* the arguments of the first call
    cf_calls,              \* the calls made so far: <<[args, res]>>
    \* ---- one call of a text source (SpecText) ----
    tx_source,             \* "random" | "mistral" | "gemini"
    tx_phrase,             \* highlighted_text
    tx_input,              \* what the AI service answers / what random draws
    tx_called,             \* the call has been made
    tx_result,             \* (lines, highlight_line_index) as returned
    tx_pool                \* text_snippets_pool after line 558

driverVars == <<pc, retval, fps, duration_seconds, ai_mode, font_paths, lookup,
                text_snippets_pool, generation_attempts, total_frames, frames,
                frame_num, failed_fonts, font_retries, frame_generated,
                current_font_path, errored, fallback_tried, cand_attempts, fallback_attempts, exhausted, encoder_frames,
                ai_call_failed>>

fontVars == <<rf_paths, rf_exclude, rf_how, rf_result>>

frameVars == <<cf_args, cf_calls>>

textVars == <<tx_source, tx_phrase, tx_input, tx_called, tx_result, tx_pool>>

vars == <<driverVars, fontVars, frameVars, textVars>>

(***************************************************************************)
(* get_random_font                                                         *)
(***************************************************************************)
\* FindFallback without the except clause of lines 117-119
FindFallbackUncaught(how) ==
    CASE how = "path"   -> FallbackPath
      [] how = "empty"  -> None
      [] how = "throws" -> Raised

\* fm.findfont(prop, fallback_to_default=True) inside the try of get_random_font:
\* the fallback path, a falsy path, or an exception (caught: None)
FindFallback(how) ==
    CASE how = "path"   -> FallbackPath
      [] how = "empty"  -> None
      [] how = "throws" -> None

\* a resolver that may hand out the fallback while candidates remain
GetRandomFontOrFallback(paths, exclude_list, how) ==
    (paths \ exclude_list) \cup {FindFallback(how)}

\* the set of values get_random_font may return (random.choice: any member)
GetRandomFont(paths, exclude_list, how) ==
    LET available_fonts == paths \ exclude_list
    IN  IF available_fonts = {} THEN {FindFallback(how)} ELSE available_fonts

(***************************************************************************)
(* generate(): validation, then generate_video up to the snippet pool      *)
(***************************************************************************)
\* no call of create_text_image_frame of its own
FrameIdle ==
    /\ cf_args = <<>>
    /\ cf_calls = <<>>

\* no call of a text source of its own
TextIdle ==
    /\ tx_source = "random"
    /\ tx_phrase = <<>>
    /\ tx_input = <<>>
    /\ tx_called = FALSE
    /\ tx_result = <<>>
    /\ tx_pool = <<>>

DriverInit ==
    /\ pc = "idle"
    /\ retval = ""
    /\ fps = 0
    /\ duration_seconds = 0
    /\ ai_mode = "random"
    /\ font_paths = {}
    /\ lookup = "path"
    /\ text_snippets_pool = <<>>
    /\ generation_attempts = 0
    /\ total_frames = 0
    /\ frames = 0
    /\ frame_num = 0
    /\ failed_fonts = {}
    /\ font_retries = 0
    /\ frame_generated = FALSE
    /\ current_font_path = None
    /\ errored = {}
    /\ fallback_tried = FALSE
    /\ cand_attempts = 0
    /\ fallback_attempts = 0
    /\ exhausted = FALSE
    /\ encoder_frames = -1
    /\ ai_call_failed = FALSE

\* no call of get_random_font of its own
FontIdle ==
    /\ rf_paths = {}
    /\ rf_exclude = {}
    /\ rf_how = "path"
    /\ rf_result = NotCalled

Init ==
    /\ DriverInit
    /\ FontIdle
    /\ FrameIdle
    /\ TextIdle

\* the font directories a request may find: up to NumFonts files, one of which
\* may be the file that is also the system fallback
FontDirs == UNION {{1..k, (1..(k-1)) \cup {FallbackPath}} : k \in 1..NumFonts} \cup {{}}

\* the provider branch taken by the pool loop, from lines 481-497 and 530/541
AiMode(ai_enabled, ai_provider, gemini_available, mistral_available, client_ok) ==
    IF ~ai_enabled THEN "random"
    ELSE IF ai_provider = "gemini" /\ gemini_available THEN "gemini"
    ELSE IF ai_provider = "mistral" /\ mistral_available /\ client_ok THEN "mistral"
    ELSE "random"

RouteAccepts(f, d) ==
    /\ MinRate <= f /\ f <= MaxRate
    /\ MinRate <= d /\ d <= MaxRate

Generate ==
    /\ pc = "idle"
    /\ \E f \in 0..MaxFps, d \in 0..MaxDuration, dir \in FontDirs,
          how \in {"path", "throws"},
          ai_enabled \in BOOLEAN, ai_provider \in {"gemini", "mistral", "random"},
          gemini_available \in BOOLEAN, mistral_available \in BOOLEAN,
          client_ok \in BOOLEAN :
        /\ fps' = f
        /\ duration_seconds' = d
        /\ lookup' = how
        /\ IF ~RouteAccepts(f, d)
           THEN /\ pc' = "rejected"
                /\ retval' = "redirect"
                /\ UNCHANGED <<ai_mode, font_paths>>
           ELSE /\ ai_mode' = AiMode(ai_enabled, ai_provider, gemini_available,
                                     mistral_available, client_ok)
                /\ font_paths' = dir
                /\ IF dir = {}
                   THEN /\ pc' = "returned"
                        /\ retval' = "No fonts found"
                   ELSE /\ pc' = "pool"
                        /\ retval' = ""
    /\ UNCHANGED <<text_snippets_pool, generation_attempts, total_frames, frames,
                   frame_num, failed_fonts, font_retries, frame_generated,
                   current_font_path, errored, fallback_tried, cand_attempts, fallback_attempts, exhausted, encoder_frames>>
    /\ UNCHANGED ai_call_failed
    /\ UNCHANGED <<fontVars, frameVars, textVars>>

(***************************************************************************)
(* generate_video: the snippet-pool loop                                   *)
(***************************************************************************)
\* a budget of one attempt per snippet
SingleAttemptBudget == unique_text_count

\* line 526
max_generation_attempts == unique_text_count * 4

\* what generate_gemini_text_snippet / generate_ai_text_snippet may hand back
AiSnippetResults == Snippets \cup {SnippetFailure}
\* what generate_random_text_snippet(highlighted_text, 7, 10) may hand back
RandomSnippetResults == Snippets

\* a pass of the loop that never replaces a failed AI call (no lines 536-538, 547-549)
PoolAttemptNoDemotion ==
    /\ pc = "pool"
    /\ Len(text_snippets_pool) < unique_text_count
    /\ generation_attempts < max_generation_attempts
    /\ generation_attempts' = generation_attempts + 1
    /\ \E first \in (IF ai_mode = "random" THEN RandomSnippetResults
                                          ELSE AiSnippetResults),
          second \in RandomSnippetResults :
         LET demote == FALSE
             got == IF demote THEN second ELSE first
         IN  /\ text_snippets_pool' =
                    IF got # SnippetFailure
                    THEN Append(text_snippets_pool, got)
                    ELSE text_snippets_pool
             /\ ai_call_failed' = (ai_mode # "random" /\ first = SnippetFailure)
    /\ UNCHANGED <<pc, retval, fps, duration_seconds, ai_mode, font_paths, lookup,
                   total_frames, frames, frame_num, failed_fonts, font_retries,
                   frame_generated, current_font_path, errored, fallback_tried,
                   cand_attempts, fallback_attempts, exhausted,
                   encoder_frames>>
    /\ UNCHANGED <<fontVars, frameVars, textVars>>

\* one pass of the while loop of lines 528-558
PoolAttempt ==
    /\ pc = "pool"
    /\ Len(text_snippets_pool) < unique_text_count
    /\ generation_attempts < max_generation_attempts
    /\ generation_attempts' = generation_attempts + 1
    /\ \E first \in (IF ai_mode = "random" THEN RandomSnippetResults
                                          ELSE AiSnippetResults),
          second \in RandomSnippetResults :
         LET demote == /\ ai_mode # "random"
                       /\ first = SnippetFailure
                       /\ generation_attempts' > max_generation_attempts \div 2
             got == IF demote THEN second ELSE first
         IN  /\ text_snippets_pool' =
                    IF got # SnippetFailure
                    THEN Append(text_snippets_pool, got)
                    ELSE text_snippets_pool
             /\ ai_call_failed' = (ai_mode # "random" /\ first = SnippetFailure)
    /\ UNCHANGED <<pc, retval, fps, duration_seconds, ai_mode, font_paths, lookup,
                   total_frames, frames, frame_num, failed_fonts, font_retries,
                   frame_generated, current_font_path, errored, fallback_tried,
                   cand_attempts, fallback_attempts, exhausted,
                   encoder_frames>>
    /\ UNCHANGED <<fontVars, frameVars, textVars>>

\* the loop has ended: lines 560-579
PoolDone ==
    /\ pc = "pool"
    /\ ~(/\ Len(text_snippets_pool) < unique_text_count
         /\ generation_attempts < max_generation_attempts)
    /\ IF text_snippets_pool = <<>>
       THEN /\ pc' = "returned"
            /\ retval' = "Failed to generate text content"
            /\ UNCHANGED <<total_frames, frames, failed_fonts, frame_num>>
       ELSE /\ total_frames' = fps * duration_seconds
            /\ frames' = 0
            /\ failed_fonts' = {}
            /\ frame_num' = 0
            /\ pc' = IF 0 < fps * duration_seconds THEN "frame" ELSE "encode"
            /\ UNCHANGED retval
    \* no line after the loop reads these two locals
    /\ ai_mode' = "random"
    /\ generation_attempts' = 0
    /\ ai_call_failed' = FALSE
    /\ UNCHANGED <<fps, duration_seconds, font_paths, lookup,
                   text_snippets_pool, font_retries,
                   frame_generated, current_font_path, errored, fallback_tried,
                   cand_attempts, fallback_attempts, exhausted,
                   encoder_frames>>
    /\ UNCHANGED <<fontVars, frameVars, textVars>>

(***************************************************************************)
(* generate_video: the frame loop                                          *)
(***************************************************************************)
\* where the font retry loop goes after a pass that did not break or return
RetryLoop(retries) ==
    IF retries < MAX_FONT_RETRIES_PER_FRAME THEN "select" ELSE "frame_end"

\* lines 579-588: a frame starts
BeginFrame ==
    /\ pc = "frame"
    /\ \E i \in 1..Len(text_snippets_pool) : TRUE    \* random.choice(pool)
    /\ font_retries' = 0
    /\ frame_generated' = FALSE
    /\ cand_attempts' = 0
    /\ fallback_attempts' = 0
    /\ pc' = RetryLoop(0)
    /\ UNCHANGED <<retval, fps, duration_seconds, ai_mode, font_paths, lookup,
                   text_snippets_pool, generation_attempts, total_frames, frames,
                   frame_num, failed_fonts, current_font_path, errored,
                   fallback_tried, exhausted, encoder_frames>>
    /\ UNCHANGED ai_call_failed
    /\ UNCHANGED <<fontVars, frameVars, textVars>>

\* the font of the attempt comes from the fallback branch of get_random_font
ViaFallback == font_paths \ failed_fonts = {}

\* lines 590-593: the font of this attempt
SelectFont ==
    /\ pc = "select"
    /\ \E f \in GetRandomFont(font_paths, failed_fonts, lookup) :
        /\ current_font_path' = f
        /\ IF f = Raised
           THEN /\ pc' = "raised"
                /\ retval' = "exception"
                /\ UNCHANGED <<cand_attempts, fallback_attempts,
                               fallback_tried>>
           ELSE IF f = None
           THEN /\ pc' = "returned"
                /\ retval' = "No usable fonts available"
                /\ UNCHANGED <<cand_attempts, fallback_attempts,
                               fallback_tried>>
           ELSE /\ pc' = "draw"
                /\ UNCHANGED retval
                /\ cand_attempts' = cand_attempts + (IF ViaFallback THEN 0 ELSE 1)
                /\ fallback_attempts' = fallback_attempts + (IF ViaFallback THEN 1 ELSE 0)
                /\ fallback_tried' = (fallback_tried \/ f = FallbackPath)
    /\ UNCHANGED <<fps, duration_seconds, ai_mode, font_paths, lookup,
                   text_snippets_pool, generation_attempts, total_frames, frames,
                   frame_num, failed_fonts, font_retries, frame_generated,
                   errored, exhausted, encoder_frames>>
    /\ UNCHANGED ai_call_failed
    /\ UNCHANGED <<fontVars, frameVars, textVars>>

\* a success handler that also records the font as failed
DrawOkMarksFailed ==
    /\ pc = "draw"
    /\ current_font_path' = None     \* rebound by line 590 before any later read
    /\ frames' = frames + 1
    /\ failed_fonts' = failed_fonts \cup {current_font_path}
    /\ frame_generated' = TRUE
    /\ pc' = "frame_end"
    /\ UNCHANGED <<retval, fps, duration_seconds, ai_mode, font_paths, lookup,
                   text_snippets_pool, generation_attempts, total_frames,
                   frame_num, font_retries, errored, fallback_tried, cand_attempts,
                   fallback_attempts, exhausted, encoder_frames>>
    /\ UNCHANGED ai_call_failed
    /\ UNCHANGED <<fontVars, frameVars, textVars>>

\* lines 596-609: create_text_image_frame returned an image
DrawOk ==
    /\ pc = "draw"
    /\ current_font_path' = None     \* rebound by line 590 before any later read
    /\ frames' = frames + 1
    /\ frame_generated' = TRUE
    /\ pc' = "frame_end"
    /\ UNCHANGED <<retval, fps, duration_seconds, ai_mode, font_paths, lookup,
                   text_snippets_pool, generation_attempts, total_frames,
                   frame_num, failed_fonts, font_retries, errored, fallback_tried, cand_attempts,
                   fallback_attempts, exhausted, encoder_frames>>
    /\ UNCHANGED ai_call_failed
    /\ UNCHANGED <<fontVars, frameVars, textVars>>

\* lines 611-628: create_text_image_frame raised FontLoadError or FontDrawError
DrawFontError ==
    /\ pc = "draw"
    /\ current_font_path' = None     \* rebound by line 590 before any later read
    /\ \E kind \in {"FontLoadError", "FontDrawError"} : TRUE
    /\ errored' = errored \cup {current_font_path}
    /\ LET failed1 == failed_fonts \cup {current_font_path}
           retries1 == font_retries + 1
       IN  IF Cardinality(failed1) >= Cardinality(font_paths)
           THEN \E fallback_font \in GetRandomFont({}, failed1, lookup) :
                  IF fallback_font = Raised
                  THEN /\ pc' = "raised"
                       /\ retval' = "exception"
                       /\ failed_fonts' = failed1
                       /\ font_retries' = retries1
                       /\ UNCHANGED frame_generated
                  ELSE IF fallback_font # None /\ fallback_font \notin failed1
                  THEN /\ failed_fonts' = failed1 \cup {fallback_font}
                       /\ font_retries' = 0
                       /\ pc' = RetryLoop(0)
                       /\ UNCHANGED <<retval, frame_generated>>
                  ELSE /\ failed_fonts' = failed1
                       /\ font_retries' = retries1
                       /\ frame_generated' = FALSE
                       /\ pc' = "frame_end"
                       /\ UNCHANGED retval
           ELSE /\ failed_fonts' = failed1
                /\ font_retries' = retries1
                /\ pc' = RetryLoop(retries1)
                /\ UNCHANGED <<retval, frame_generated>>
    /\ UNCHANGED <<fps, duration_seconds, ai_mode, font_paths, lookup,
                   text_snippets_pool, generation_attempts, total_frames, frames,
                   frame_num, fallback_tried, cand_attempts, fallback_attempts, exhausted, encoder_frames>>
    /\ UNCHANGED ai_call_failed
    /\ UNCHANGED <<fontVars, frameVars, textVars>>

\* a handler of other exceptions that does not count the attempt
DrawUnexpectedUncounted ==
    /\ pc = "draw"
    /\ current_font_path' = None     \* rebound by line 590 before any later read
    /\ errored' = errored \cup {current_font_path}
    /\ failed_fonts' = failed_fonts \cup {current_font_path}
    /\ font_retries' = font_retries
    /\ pc' = RetryLoop(font_retries)
    /\ UNCHANGED <<retval, fps, duration_seconds, ai_mode, font_paths, lookup,
                   text_snippets_pool, generation_attempts, total_frames, frames,
                   frame_num, frame_generated, fallback_tried,
                   cand_attempts, fallback_attempts, exhausted,
                   encoder_frames>>
    /\ UNCHANGED ai_call_failed
    /\ UNCHANGED <<fontVars, frameVars, textVars>>

\* lines 630-634: any other exception of the attempt
DrawUnexpected ==
    /\ pc = "draw"
    /\ current_font_path' = None     \* rebound by line 590 before any later read
    /\ errored' = errored \cup {current_font_path}
    /\ failed_fonts' = failed_fonts \cup {current_font_path}
    /\ font_retries' = font_retries + 1
    /\ pc' = RetryLoop(font_retries + 1)
    /\ UNCHANGED <<retval, fps, duration_seconds, ai_mode, font_paths, lookup,
                   text_snippets_pool, generation_attempts, total_frames, frames,
                   frame_num, frame_generated, fallback_tried,
                   cand_attempts, fallback_attempts, exhausted,
                   encoder_frames>>
    /\ UNCHANGED ai_call_failed
    /\ UNCHANGED <<fontVars, frameVars, textVars>>

\* FrameFailed with the `break` of line 641 in place of the return of line 640
FrameFailedBreak ==
    /\ pc = "frame_end"
    /\ ~frame_generated
    /\ exhausted' = TRUE
    /\ pc' = "encode"
    /\ UNCHANGED <<retval, fps, duration_seconds, ai_mode, font_paths, lookup,
                   text_snippets_pool, generation_attempts, total_frames, frames,
                   frame_num, failed_fonts, font_retries, frame_generated,
                   current_font_path, errored, fallback_tried,
                   cand_attempts, fallback_attempts, encoder_frames>>
    /\ UNCHANGED ai_call_failed
    /\ UNCHANGED <<fontVars, frameVars, textVars>>

\* lines 636-640: the retry loop ended without a frame
FrameFailed ==
    /\ pc = "frame_end"
    /\ ~frame_generated
    /\ exhausted' = TRUE
    /\ pc' = "returned"
    /\ retval' = "Failed to generate frame"
    /\ UNCHANGED <<fps, duration_seconds, ai_mode, font_paths, lookup,
                   text_snippets_pool, generation_attempts, total_frames, frames,
                   frame_num, failed_fonts, font_retries, frame_generated,
                   current_font_path, errored, fallback_tried, cand_attempts, fallback_attempts, encoder_frames>>
    /\ UNCHANGED ai_call_failed
    /\ UNCHANGED <<fontVars, frameVars, textVars>>

\* lines 643-646 and the loop test of line 579: the frame is counted, the
\* progress report evaluates frame_num % (total_frames // 10)
FrameAdvance ==
    /\ pc = "frame_end"
    /\ frame_generated
    /\ frame_num' = frame_num + 1
    /\ IF total_frames \div ProgressSteps = 0
       THEN /\ pc' = "raised"                  \* ZeroDivisionError
            /\ retval' = "exception"
       ELSE /\ pc' = IF frame_num + 1 < total_frames THEN "frame" ELSE "encode"
            /\ UNCHANGED retval
    /\ UNCHANGED <<fps, duration_seconds, ai_mode, font_paths, lookup,
                   text_snippets_pool, generation_attempts, total_frames, frames,
                   failed_fonts, font_retries, frame_generated, current_font_path,
                   errored, fallback_tried, cand_attempts,
                   fallback_attempts, exhausted, encoder_frames>>
    /\ UNCHANGED ai_call_failed
    /\ UNCHANGED <<fontVars, frameVars, textVars>>

(***************************************************************************)
(* generate_video: the encoder                                             *)
(***************************************************************************)
\* lines 650-703
Encode ==
    /\ pc = "encode"
    /\ IF frames = 0
       THEN /\ pc' = "returned"
            /\ retval' = "No frames were generated"
            /\ UNCHANGED encoder_frames
       ELSE /\ encoder_frames' = frames
            /\ pc' = "returned"
            /\ \E written \in BOOLEAN :
                 retval' = IF written THEN "filename" ELSE "Error during video writing"
    /\ UNCHANGED <<fps, duration_seconds, ai_mode, font_paths, lookup,
                   text_snippets_pool, generation_attempts, total_frames, frames,
                   frame_num, failed_fonts, font_retries, frame_generated,
                   current_font_path, errored, fallback_tried, cand_attempts, fallback_attempts, exhausted>>
    /\ UNCHANGED ai_call_failed
    /\ UNCHANGED <<fontVars, frameVars, textVars>>

Next ==
    \/ Generate
    \/ PoolAttempt
    \/ PoolDone
    \/ BeginFrame
    \/ SelectFont
    \/ DrawOk
    \/ DrawFontError
    \/ DrawUnexpected
    \/ FrameFailed
    \/ FrameAdvance
    \/ Encode

Spec == Init /\ [][Next]_vars

\* the request is a sequential program: a step that can be taken is taken
SpecLive == Init /\ [][Next]_vars /\ WF_vars(Next)

(***************************************************************************)
(* create_text_image_frame                                                 *)
(*                                                                         *)
(* A text is a sequence of the characters "i" (one advance) and "m" (two   *)
(* advances).  A font file answers the calls made on it as its face says.  *)
(* Pixel values (heights, canvas sizes) are whole pixels; lengths that the *)
(* code keeps as floats are in units of 1/Unit pixel.  Colours do not      *)
(* enter the geometry and are left out.                                    *)
(***************************************************************************)
\* 1/64 pixel, the resolution of getlength, is 10 units; 0.6 pixel is 384
Unit == 64 * 10

\* most lines of a snippet drawn for create_text_image_frame
MaxLines == 2

Abs(x) == IF x < 0 THEN -x ELSE x

Min2(x, y) == IF x <= y THEN x ELSE y

Max2(x, y) == IF x >= y THEN x ELSE y

FaceNames == {"sans", "serif", "hollow", "flat", "corrupt", "broken", "nodraw"}

\* what the font file at font_path answers:
\*   loads      ImageFont.truetype(font_path, font_size) succeeds
\*   bold_file  a bold variant file exists beside it and loads
\*   adv, bold_adv          advance of "i" in 1/64 pixel, regular and bold file
\*   bold_bbox_h            getbbox height of a non-empty text, bold font, pixels
\*   has_metrics, ascent, descent, ay_h   getmetrics(), or getbbox("Ay")
\*   measure_ok, draw_ok    getlength/getbbox and ImageDraw.text do not raise
Face(font_path) ==
    CASE font_path = "sans" ->
           [loads |-> TRUE, bold_file |-> TRUE, adv |-> 400, bold_adv |-> 448,
            bold_bbox_h |-> 9, has_metrics |-> TRUE, ascent |-> 10, descent |-> 3,
            ay_h |-> 12, measure_ok |-> TRUE, draw_ok |-> TRUE]
      [] font_path = "serif" ->
           [loads |-> TRUE, bold_file |-> FALSE, adv |-> 355, bold_adv |-> 0,
            bold_bbox_h |-> 8, has_metrics |-> TRUE, ascent |-> 9, descent |-> -2,
            ay_h |-> 10, measure_ok |-> TRUE, draw_ok |-> TRUE]
      [] font_path = "hollow" ->
           [loads |-> TRUE, bold_file |-> FALSE, adv |-> 0, bold_adv |-> 0,
            bold_bbox_h |-> 0, has_metrics |-> TRUE, ascent |-> 0, descent |-> 0,
            ay_h |-> 0, measure_ok |-> TRUE, draw_ok |-> TRUE]
      [] font_path = "flat" ->
           [loads |-> TRUE, bold_file |-> TRUE, adv |-> 320, bold_adv |-> 384,
            bold_bbox_h |-> 0, has_metrics |-> FALSE, ascent |-> 0, descent |-> 0,
            ay_h |-> 11, measure_ok |-> TRUE, draw_ok |-> TRUE]
      [] font_path = "corrupt" ->
           [loads |-> FALSE, bold_file |-> FALSE, adv |-> 0, bold_adv |-> 0,
            bold_bbox_h |-> 0, has_metrics |-> FALSE, ascent |-> 0, descent |-> 0,
            ay_h |-> 0, measure_ok |-> FALSE, draw_ok |-> FALSE]
      [] font_path = "broken" ->
           [loads |-> TRUE, bold_file |-> FALSE, adv |-> 400, bold_adv |-> 0,
            bold_bbox_h |-> 9, has_metrics |-> TRUE, ascent |-> 10, descent |-> 3,
            ay_h |-> 12, measure_ok |-> FALSE, draw_ok |-> TRUE]
      [] font_path = "nodraw" ->
           [loads |-> TRUE, bold_file |-> FALSE, adv |-> 400, bold_adv |-> 0,
            bold_bbox_h |-> 9, has_metrics |-> TRUE, ascent |-> 10, descent |-> 3,
            ay_h |-> 12, measure_ok |-> TRUE, draw_ok |-> FALSE]

\* lines 260-282: bold_font is the bold variant if one loads, else font itself
BoldAdvance(face) == IF face.bold_file THEN face.bold_adv ELSE face.adv

\* font.getlength(text), in units
GetLength(adv, text) ==
    adv * 10 * (Len(text) + Cardinality({k \in 1..Len(text) : text[k] = "m"}))

\* getbbox(text, anchor="lt")[3] - getbbox(...)[1], in pixels
BBoxHeight(h, text) == IF text = <<>> THEN 0 ELSE h

\* lines 291-300, with vertical_spread_factor = 1.5: whole pixels
LineHeight(face, font_size) ==
    LET metric_height == IF face.has_metrics
                         THEN face.ascent + Abs(face.descent)
                         ELSE face.ay_h
        line_height == (metric_height * 3) \div 2
    IN  IF 10 * line_height <= 8 * font_size
        THEN (18 * font_size) \div 10
        ELSE line_height

\* lines 303-308: <<highlight_width_bold (units), highlight_height_bold (pixels)>>
HighlightSize(face, font_size, highlighted_text) ==
    LET w == GetLength(BoldAdvance(face), highlighted_text)
        h == BBoxHeight(face.bold_bbox_h, highlighted_text)
    IN  IF w <= 0 \/ h <= 0
        THEN <<IF w <= 0 THEN Len(highlighted_text) * font_size * 384 ELSE w,
               (11 * font_size) \div 10>>
        ELSE <<w, h>>

\* a centring that rounds down to a whole pixel
HighlightTargetWholePixel(canvas, extent) ==
    ((canvas * Unit - extent) \div (2 * Unit)) * Unit

\* lines 311-312: (width - highlight_width_bold) / 2, canvas in pixels, extent
\* and result in units
HighlightTarget(canvas, extent) == (canvas * Unit - extent) \div 2

\* a block that starts one line above the target whatever the index is
BlockStartOneLineUp(highlight_target_y, highlight_line_index, line_height) ==
    highlight_target_y - line_height * Unit

\* line 315
BlockStartY(highlight_target_y, highlight_line_index, line_height) ==
    highlight_target_y - (highlight_line_index * line_height) * Unit

NotFound == 0 - 1

\* the last start at which the phrase occurs
IndexLast(line, phrase) ==
    LET starts == {k \in 0..(Len(line) - Len(phrase)) :
                     SubSeq(line, k + 1, k + Len(phrase)) = phrase}
    IN  IF starts = {} THEN NotFound
        ELSE CHOOSE k \in starts : \A j \in starts : k >= j

\* str.index: the first start (from 0) at which the phrase occurs, or NotFound
\* for the ValueError of line 328
Index(line, phrase) ==
    LET starts == {k \in 0..(Len(line) - Len(phrase)) :
                     SubSeq(line, k + 1, k + Len(phrase)) = phrase}
    IN  IF starts = {} THEN NotFound
        ELSE CHOOSE k \in starts : \A j \in starts : k <= j

RECURSIVE DrawLinesAlwaysOffset(_, _, _, _, _, _, _)
\* a base loop that offsets the highlight line whether or not the phrase
\* was found in it
DrawLinesAlwaysOffset(text_lines, i, current_y, line_height, width, adv, hl) ==
    IF i > Len(text_lines) THEN <<>>
    ELSE LET line == text_lines[i]
             line_x == IF i = hl.index + 1
                       THEN hl.start_x
                       ELSE (width * Unit - GetLength(adv, line)) \div 2
         IN  <<[x |-> line_x, y |-> current_y, text |-> line]>>
             \o DrawLinesAlwaysOffset(text_lines, i + 1, current_y + line_height * Unit,
                                      line_height, width, adv, hl)

RECURSIVE DrawLines(_, _, _, _, _, _, _)
\* lines 344-353: the draw_base.text calls from line i (from 1) on, current_y
\* running; each is [x, y, text]
DrawLines(text_lines, i, current_y, line_height, width, adv, hl) ==
    IF i > Len(text_lines) THEN <<>>
    ELSE LET line == text_lines[i]
             line_x == IF i = hl.index + 1 /\ hl.found
                       THEN hl.start_x
                       ELSE (width * Unit - GetLength(adv, line)) \div 2
         IN  <<[x |-> line_x, y |-> current_y, text |-> line]>>
             \o DrawLines(text_lines, i + 1, current_y + line_height * Unit,
                          line_height, width, adv, hl)

RECURSIVE DrawSharp(_, _, _, _, _, _, _)
\* lines 384-403: the draw_sharp.text calls, the highlight line in three parts
DrawSharp(text_lines, i, current_y, line_height, width, adv, hl) ==
    IF i > Len(text_lines) THEN <<>>
    ELSE LET line == text_lines[i]
             parts == IF i = hl.index + 1 /\ hl.found
                      THEN << [x |-> hl.target_x - hl.prefix_width, y |-> current_y,
                               text |-> hl.prefix],
                              [x |-> hl.target_x, y |-> current_y, text |-> hl.phrase],
                              [x |-> hl.target_x + GetLength(adv, hl.phrase),
                               y |-> current_y, text |-> hl.suffix] >>
                      ELSE << [x |-> (width * Unit - GetLength(adv, line)) \div 2,
                               y |-> current_y, text |-> line] >>
         IN  parts \o DrawSharp(text_lines, i + 1, current_y + line_height * Unit,
                                line_height, width, adv, hl)

\* create_radial_blur_mask, lines 236-249: the ellipse, and 7 times the blur
\* amount max(0.1, (fade_radius - sharp_radius) / 3.5)
CreateRadialBlurMask(center_x, center_y, sharp_radius, fade_radius) ==
    [ellipse |-> <<center_x - sharp_radius, center_y - sharp_radius,
                   center_x + sharp_radius, center_y + sharp_radius>>,
     blur7 |-> Max2((7 * Unit) \div 10, 2 * (fade_radius - sharp_radius))]

\* blur_radius is a float: finite (in tenths), or one of the non-finite values
Finite(r) == r.kind = "finite"

\* blur_radius > 0
Positive(r) == (Finite(r) /\ r.tenths > 0) \/ r.kind = "inf"

\* int(blur_radius * 3), line 358: truncation toward zero of a finite value
PaddingForBlur(r) ==
    IF r.tenths >= 0 THEN (3 * r.tenths) \div 10
    ELSE 0 - ((3 * (0 - r.tenths)) \div 10)

NoMask == [ellipse |-> <<0, 0, 0, 0>>, blur7 |-> 0]

\* lines 360-416: the layer the overlay is drawn on.  radius20 is the radius
\* of the gaussian filter applied to the base layer, in 1/20 pixel
BlurLayer(a, base, sharp, pad_ok) ==
    IF a.blur_type = "gaussian" /\ Positive(a.blur_radius)
    THEN [path |-> IF pad_ok THEN "gaussian_padded" ELSE "gaussian_direct",
          padding |-> IF pad_ok THEN PaddingForBlur(a.blur_radius) ELSE 0,
          radius20 |-> 2 * a.blur_radius.tenths,
          base |-> base, sharp |-> <<>>, mask |-> NoMask]
    ELSE IF a.blur_type = "radial" /\ Positive(a.blur_radius)
    THEN LET sharp_center_radius == Min2(a.width, a.height) * 192
             fade_radius == sharp_center_radius + Max2(a.width, a.height) * 96
         IN  [path |-> "radial", padding |-> 0,
              radius20 |-> 3 * a.blur_radius.tenths,
              base |-> base, sharp |-> sharp,
              mask |-> CreateRadialBlurMask(a.width * (Unit \div 2),
                                            a.height * (Unit \div 2),
                                            sharp_center_radius, fade_radius)]
    ELSE [path |-> "none", padding |-> 0, radius20 |-> 0,
          base |-> base, sharp |-> <<>>, mask |-> NoMask]

\* a rectangle that pads on the right and below only
HighlightRectOneSided(x, y, w, h, padding) ==
    <<x, y, x + w + 2 * padding, y + h + 2 * padding>>

\* lines 424-431: the corners of the highlight rectangle
HighlightRect(x, y, w, h, padding) ==
    <<x - padding, y - padding, x + w + padding, y + h + padding>>

NoLayer == [path |-> "", padding |-> 0, radius20 |-> 0, base |-> <<>>,
            sharp |-> <<>>, mask |-> NoMask]

\* the locals of a call that raised before the measurements were done
NoFrame(exception) ==
    [raised |-> exception, measured |-> FALSE, line_height |-> 0,
     highlight_width_bold |-> 0, highlight_height_bold |-> 0,
     highlight_target_x |-> 0, highlight_target_y |-> 0, block_start_y |-> 0,
     highlight_found_in_line |-> FALSE, bg_highlight_line_start_x |-> 0,
     img_blurred |-> NoLayer, rect |-> <<0, 0, 0, 0>>, text_at |-> <<0, 0>>]

\* create_text_image_frame(width, height, text_lines, highlight_line_index,
\* highlighted_text, font_path, font_size, ..., blur_type, blur_radius, 0.3, 1.5):
\* the exception it raises ("" for none), its measurements, and the image it
\* returns as the layer under the overlay, the rectangle and the text position.
\* pad_ok: the padded gaussian blur of lines 362-372 does not raise.
CreateTextImageFrame(a, pad_ok) ==
    LET face == Face(a.font_path)
    IN  IF ~face.loads THEN NoFrame("FontLoadError")
        ELSE IF ~face.measure_ok THEN NoFrame("FontDrawError")
        ELSE
        LET line_height == LineHeight(face, a.font_size)
            size == HighlightSize(face, a.font_size, a.highlighted_text)
            highlight_width_bold == size[1]
            highlight_height_bold == size[2] * Unit
            highlight_target_x == HighlightTarget(a.width, highlight_width_bold)
            highlight_target_y == HighlightTarget(a.height, highlight_height_bold)
            block_start_y == BlockStartY(highlight_target_y, a.highlight_line_index,
                                         line_height)
            full == a.text_lines[a.highlight_line_index + 1]
            start_index == Index(full, a.highlighted_text)
            found == start_index # NotFound
            end_index == start_index + Len(a.highlighted_text)
            prefix_text == IF found THEN SubSeq(full, 1, start_index) ELSE <<>>
            suffix_text == IF found THEN SubSeq(full, end_index + 1, Len(full)) ELSE <<>>
            prefix_width_regular == GetLength(face.adv, prefix_text)
            bg_highlight_line_start_x == highlight_target_x - prefix_width_regular
            hl == [index |-> a.highlight_line_index, found |-> found,
                   start_x |-> bg_highlight_line_start_x,
                   target_x |-> highlight_target_x,
                   prefix_width |-> prefix_width_regular,
                   prefix |-> prefix_text, phrase |-> a.highlighted_text,
                   suffix |-> suffix_text]
            base == DrawLines(a.text_lines, 1, block_start_y, line_height,
                              a.width, face.adv, hl)
            sharp == DrawSharp(a.text_lines, 1, block_start_y, line_height,
                               a.width, face.adv, hl)
            padding == a.font_size * (Unit \div 10)
            measured == [NoFrame("") EXCEPT
                           !.measured = TRUE,
                           !.line_height = line_height,
                           !.highlight_width_bold = highlight_width_bold,
                           !.highlight_height_bold = highlight_height_bold,
                           !.highlight_target_x = highlight_target_x,
                           !.highlight_target_y = highlight_target_y,
                           !.block_start_y = block_start_y,
                           !.highlight_found_in_line = found,
                           !.bg_highlight_line_start_x = bg_highlight_line_start_x]
        IN  IF ~face.draw_ok
            THEN [measured EXCEPT !.raised = "FontDrawError"]
            ELSE IF a.blur_radius.kind = "nan"
            THEN [measured EXCEPT !.raised = "ValueError"]
            ELSE IF ~Finite(a.blur_radius)
            THEN [measured EXCEPT !.raised = "OverflowError"]
            ELSE [measured EXCEPT
                    !.img_blurred = BlurLayer(a, base, sharp, pad_ok),
                    !.rect = HighlightRect(highlight_target_x, highlight_target_y,
                                           highlight_width_bold,
                                           highlight_height_bold, padding),
                    !.text_at = <<highlight_target_x, highlight_target_y>>]

(***************************************************************************)
(* SpecFrame: create_text_image_frame called on drawn arguments, and then  *)
(* once more with another font, another blur setting or another snippet    *)
(***************************************************************************)
Canvases == {<<64, 48>>, <<65, 49>>}

FontSizes == {12}

Phrases == {<<>>, <<"m">>, <<"i", "m">>}

LineTexts == {<<"i", "i", "m">>, <<"m", "i">>}

BlurTypes == {"gaussian", "radial", "none", "box"}

BlurRadii == {[kind |-> "finite", tenths |-> 40], [kind |-> "finite", tenths |-> 0],
              [kind |-> "finite", tenths |-> 0 - 15], [kind |-> "-inf", tenths |-> 0]}

\* the snippets: 1..MaxLines lines and the index of the highlight line
SnippetInputs ==
    UNION {[text_lines : [1..n -> LineTexts], highlight_line_index : 0..(n - 1)]
             : n \in 1..MaxLines}

FrameArgs ==
    {[width |-> c[1], height |-> c[2], text_lines |-> s.text_lines,
      highlight_line_index |-> s.highlight_line_index, highlighted_text |-> ph,
      font_path |-> f, font_size |-> fs, blur_type |-> bt, blur_radius |-> br]
       : c \in Canvases, s \in SnippetInputs, ph \in Phrases, f \in FaceNames,
         fs \in FontSizes, bt \in BlurTypes, br \in BlurRadii}

InitFrame ==
    /\ DriverInit
    /\ FontIdle
    /\ TextIdle
    /\ cf_args \in FrameArgs
    /\ cf_calls = <<>>

Call(a) ==
    \E pad_ok \in BOOLEAN :
        cf_calls' = Append(cf_calls, [args |-> a, res |-> CreateTextImageFrame(a, pad_ok)])

FirstCall ==
    /\ cf_calls = <<>>
    /\ Call(cf_args)
    /\ UNCHANGED <<cf_args, driverVars, fontVars, textVars>>

CallWithOtherFont ==
    /\ Len(cf_calls) = 1
    /\ \E f \in FaceNames \ {cf_args.font_path} :
         Call([cf_args EXCEPT !.font_path = f])
    /\ UNCHANGED <<cf_args, driverVars, fontVars, textVars>>

CallWithOtherBlur ==
    /\ Len(cf_calls) = 1
    /\ \E bt \in BlurTypes, br \in BlurRadii :
         /\ <<bt, br>> # <<cf_args.blur_type, cf_args.blur_radius>>
         /\ Call([cf_args EXCEPT !.blur_type = bt, !.blur_radius = br])
    /\ UNCHANGED <<cf_args, driverVars, fontVars, textVars>>

CallWithOtherSnippet ==
    /\ Len(cf_calls) = 1
    /\ \E s \in SnippetInputs :
         /\ <<s.text_lines, s.highlight_line_index>>
              # <<cf_args.text_lines, cf_args.highlight_line_index>>
         /\ Call([cf_args EXCEPT !.text_lines = s.text_lines,
                                 !.highlight_line_index = s.highlight_line_index])
    /\ UNCHANGED <<cf_args, driverVars, fontVars, textVars>>

NextFrame ==
    \/ FirstCall
    \/ CallWithOtherFont
    \/ CallWithOtherBlur
    \/ CallWithOtherSnippet

SpecFrame == InitFrame /\ [][NextFrame]_vars

(***************************************************************************)
(* SpecFont: get_random_font on its own                                    *)
(***************************************************************************)
FontFiles == Fonts \cup {FallbackPath}

InitFont ==
    /\ DriverInit
    /\ FrameIdle
    /\ TextIdle
    /\ rf_paths \in SUBSET FontFiles
    /\ rf_exclude \in SUBSET FontFiles
    /\ rf_how \in {"path", "empty", "throws"}
    /\ rf_result = NotCalled

CallGetRandomFont ==
    /\ rf_result = NotCalled
    /\ rf_result' \in GetRandomFont(rf_paths, rf_exclude, rf_how)
    /\ UNCHANGED <<rf_paths, rf_exclude, rf_how, driverVars, frameVars, textVars>>

NextFont == CallGetRandomFont

SpecFont == InitFont /\ [][NextFont]_vars

(***************************************************************************)
(* The text sources, and SpecText: one call of a text source with the      *)
(* arguments generate_video passes, followed by lines 557-558              *)
(***************************************************************************)
\* lines 470-471
min_lines == 7

max_lines == 10

\* most lines of an AI answer, blank lines included
MaxRawLines == 8

\* line.strip() is empty
IsBlank(line) == \A k \in 1..Len(line) : line[k] = " "

\* highlighted_text in line
Contains(line, phrase) == Index(line, phrase) # NotFound

\* the return value (None, -1)
Failure == [lines_none |-> TRUE, lines |-> <<>>, hl_index |-> 0 - 1]

\* the return value (lines, highlight_line_index)
Snippet(lines, hl_index) == [lines_none |-> FALSE, lines |-> lines, hl_index |-> hl_index]

\* lines 184-188 / 223-227: the index (from 0) of the first line that holds
\* the phrase, -1 if none does
FirstLineWith(lines, phrase) ==
    LET hits == {i \in 1..Len(lines) : Contains(lines[i], phrase)}
    IN  IF hits = {} THEN 0 - 1
        ELSE (CHOOSE i \in hits : \A j \in hits : i <= j) - 1

\* lines 175 / 219: split('\n') without the blank lines
NonBlankLines(content) == SelectSeq(content, LAMBDA line : ~IsBlank(line))

\* generate_ai_text_snippet without the minimum-lines check of lines 178-181
GenerateAiTextSnippetAnyLength(answer, highlighted_text) ==
    IF answer.outcome = "throws" THEN Failure
    ELSE LET lines == NonBlankLines(answer.content)
             highlight_line_index == FirstLineWith(lines, highlighted_text)
         IN  IF highlight_line_index = 0 - 1 THEN Failure
             ELSE Snippet(lines, highlight_line_index)

\* generate_ai_text_snippet(client, model, highlighted_text, 7, 10), lines
\* 156-199; answer.outcome = "throws": anything inside the try raises
GenerateAiTextSnippet(answer, highlighted_text) ==
    IF answer.outcome = "throws" THEN Failure
    ELSE LET lines == NonBlankLines(answer.content)
             highlight_line_index == FirstLineWith(lines, highlighted_text)
         IN  IF Len(lines) < min_lines THEN Failure
             ELSE IF highlight_line_index = 0 - 1 THEN Failure
             ELSE Snippet(lines, highlight_line_index)

\* generate_gemini_text_snippet(highlighted_text, 7, 10), lines 202-234;
\* answer.outcome = "unavailable": GEMINI_AVAILABLE is false
GenerateGeminiTextSnippet(answer, highlighted_text) ==
    IF answer.outcome = "unavailable" THEN Failure
    ELSE IF answer.outcome = "throws" THEN Failure
    ELSE LET lines == NonBlankLines(answer.content)
             highlight_line_index == FirstLineWith(lines, highlighted_text)
         IN  IF Len(lines) < min_lines THEN Failure
             ELSE IF highlight_line_index = 0 - 1 THEN Failure
             ELSE Snippet(lines, highlight_line_index)

\* what generate_random_words returned around the phrase
WordsAround == <<"i", "m", "i">>

\* generate_random_text_snippet(highlighted_text, 7, 10), lines 132-153.
\* draw.content: the lines other than the highlight line, in order;
\* draw.highlight_line_index: the index drawn at line 136
GenerateRandomTextSnippet(draw, highlighted_text) ==
    LET num_lines == Len(draw.content) + 1
        highlight_line_index == draw.highlight_line_index
        lines == [i \in 1..num_lines |->
                    IF i - 1 = highlight_line_index
                    THEN WordsAround \o <<" ">> \o highlighted_text \o <<" ">> \o WordsAround
                    ELSE draw.content[IF i - 1 < highlight_line_index THEN i ELSE i - 1]]
    IN  IF Len(lines) < min_lines THEN Failure
        ELSE Snippet(lines, highlight_line_index)

\* lines 557-558: the pool after the attempt
PoolAfter(pool, got) ==
    IF ~got.lines_none /\ got.lines # <<>> /\ got.hl_index # 0 - 1
    THEN Append(pool, [lines |-> got.lines, highlight_index |-> got.hl_index])
    ELSE pool

\* the route rejects an empty highlighted_text (line 738)
TextPhrases == Phrases \ {<<>>}

\* the lines an AI answer is made of
AnswerLines == LineTexts \cup {<<" ">>}

\* the lines generate_random_words may produce
RandomLines == {<<"i", "i">>, <<"i", "m">>}

AiAnswers ==
    {[outcome |-> "throws", content |-> <<>>, highlight_line_index |-> 0]}
    \cup UNION {{[outcome |-> "text", content |-> c, highlight_line_index |-> 0]
                   : c \in [1..n -> AnswerLines]} : n \in 0..MaxRawLines}

\* line 135: num_lines is drawn from max(1, 7)..max(7, 10); line 136: the index
RandomDraws ==
    UNION {{[outcome |-> "text", content |-> c, highlight_line_index |-> h]
              : c \in [1..(n - 1) -> RandomLines], h \in 0..(n - 1)}
             : n \in min_lines..max_lines}

InitText ==
    /\ DriverInit
    /\ FontIdle
    /\ FrameIdle
    /\ tx_phrase \in TextPhrases
    /\ \/ tx_source = "random" /\ tx_input \in RandomDraws
       \/ tx_source = "mistral" /\ tx_input \in AiAnswers
       \/ /\ tx_source = "gemini"
          /\ tx_input \in AiAnswers
               \cup {[outcome |-> "unavailable", content |-> <<>>, highlight_line_index |-> 0]}
    /\ tx_called = FALSE
    /\ tx_result = <<>>
    /\ tx_pool = <<>>

\* the source is called and lines 557-558 take its result
Returns(got) ==
    /\ ~tx_called
    /\ tx_called' = TRUE
    /\ tx_result' = got
    /\ tx_pool' = PoolAfter(tx_pool, got)
    /\ UNCHANGED <<tx_source, tx_phrase, tx_input, driverVars, fontVars, frameVars>>

CallRandom ==
    /\ tx_source = "random"
    /\ Returns(GenerateRandomTextSnippet(tx_input, tx_phrase))

CallMistral ==
    /\ tx_source = "mistral"
    /\ Returns(GenerateAiTextSnippet(tx_input, tx_phrase))

CallGemini ==
    /\ tx_source = "gemini"
    /\ Returns(GenerateGeminiTextSnippet(tx_input, tx_phrase))

NextText ==
    \/ CallRandom
    \/ CallMistral
    \/ CallGemini

SpecText == InitText /\ [][NextText]_vars

(***************************************************************************)
(* Claims about generate_video                                             *)
(***************************************************************************)
Finished == pc \in {"returned", "raised"}

\* C2: every request the route accepts (fps and duration in 1..60), in which no
\* font attempt fails and the encoder succeeds, ends with a filename and with
\* exactly fps * duration frames handed to the encoder.  (Read with a font
\* directory that holds at least one font.)
C2_AcceptedRequestYieldsAllFrames ==
    ( /\ Finished
      /\ RouteAccepts(fps, duration_seconds)
      /\ font_paths # {}
      /\ errored = {}
      /\ retval # "Error during video writing" )
    => ( /\ pc = "returned"
         /\ retval = "filename"
         /\ encoder_frames = fps * duration_seconds )

\* C3: no shortened video is returned as success: once a frame has left its
\* retry loop without being generated the call has returned the frame error
\* and the encoder was not invoked; the encoder only ever receives
\* total_frames = fps * duration frames, and a filename is returned only then.
C3_NoShortenedVideo ==
    /\ exhausted => ( /\ pc = "returned"
                      /\ retval = "Failed to generate frame"
                      /\ encoder_frames = -1 )
    /\ encoder_frames # -1 => ( /\ encoder_frames = total_frames
                                /\ total_frames = fps * duration_seconds )
    /\ retval = "filename" => encoder_frames = total_frames

\* C3 witness: a request fails on a later frame, with frames already generated
C3_Witness ==
    /\ exhausted
    /\ frames >= 1
    /\ pc = "returned"
    /\ retval = "Failed to generate frame"

\* C4: a frame makes at most MAX_FONT_RETRIES_PER_FRAME attempts with candidate
\* fonts and at most one more attempt with the system fallback font.
C4_AttemptsPerFrameBounded ==
    /\ cand_attempts <= MAX_FONT_RETRIES_PER_FRAME
    /\ fallback_attempts <= 1

\* C5: the font of a compositing attempt is never a font on which an earlier
\* attempt of the same request raised.
C5_NeverReusesFailedFont ==
    pc = "draw" => current_font_path \notin errored

\* C6: when a frame is declared failed with every candidate font failed and a
\* system fallback font available, an attempt with the fallback font was made.
C6_FallbackTriedBeforeFrameFails ==
    ( /\ exhausted
      /\ font_paths \subseteq errored
      /\ FindFallback(lookup) = FallbackPath )
    => fallback_tried
\* C13: in a pass of the snippet-pool loop whose attempt number is greater
\* than max_generation_attempts \div 2 a snippet is added to the pool, also
\* when the AI call of that pass failed (the random generator replaces it); in
\* a pass at or before the midpoint a failed AI call leaves the pool as it was.
C13_DemotionPastMidpoint ==
    [][(pc = "pool" /\ generation_attempts' = generation_attempts + 1)
         => /\ generation_attempts' > max_generation_attempts \div 2
                => Len(text_snippets_pool') = Len(text_snippets_pool) + 1
            /\ (generation_attempts' <= max_generation_attempts \div 2
                /\ ai_call_failed')
                => text_snippets_pool' = text_snippets_pool]_vars

\* the AI call of the first pass after the midpoint failed and the pool, empty
\* until then, has a snippet
C13_Witness ==
    /\ pc = "pool"
    /\ ai_call_failed
    /\ generation_attempts = max_generation_attempts \div 2 + 1
    /\ Len(text_snippets_pool) = 1

\* C14: when the pool has reached unique_text_count snippets, no two of its
\* entries are the same snippet (same lines and highlight index).
C14_PoolDistinct ==
    Len(text_snippets_pool) = unique_text_count =>
        \A i, j \in DOMAIN text_snippets_pool :
            i # j => text_snippets_pool[i] # text_snippets_pool[j]

\* C16, as stated: every font in failed_fonts is one on which a compositing
\* attempt of this request has raised; the set starts empty and only grows.
C16_FailedFontsHaveFailed ==
    /\ [](failed_fonts \subseteq errored)
    /\ [](pc = "idle" => failed_fonts = {})
    /\ [][failed_fonts \subseteq failed_fonts']_vars

\* C16, amended: every font in failed_fonts is one on which a compositing
\* attempt of this request has raised, or it is the system fallback font, put
\* there by line 621 ahead of its own attempt once every font of font_paths
\* has raised; the set starts empty and only grows.
C16_FailedOrFallbackMarked ==
    /\ [](failed_fonts \subseteq errored \cup {FallbackPath})
    /\ []((FallbackPath \in failed_fonts /\ FallbackPath \notin errored)
            => font_paths \subseteq errored)
    /\ [](pc = "idle" => failed_fonts = {})
    /\ [][failed_fonts \subseteq failed_fonts']_vars

\* the fallback is in failed_fonts though no attempt with it has been made
C16_Witness ==
    /\ FallbackPath \in failed_fonts
    /\ FallbackPath \notin errored
    /\ ~fallback_tried
    /\ errored = font_paths

\* the snippet-pool loop is over and the request goes on
PoolBuilt == pc \in {"frame", "select", "draw", "frame_end", "encode"}

\* C19: the snippet-pool loop ends with exactly unique_text_count snippets in
\* the pool, whatever the AI source does, and the request never returns
\* 'Failed to generate text content'.
C19_PoolIsFull ==
    /\ PoolBuilt => Len(text_snippets_pool) = unique_text_count
    /\ Len(text_snippets_pool) <= unique_text_count
    /\ retval # "Failed to generate text content"

\* the AI source failed in each of the first six passes, and the pool is full
C19_Witness ==
    /\ pc = "pool"
    /\ generation_attempts = max_generation_attempts \div 2 + unique_text_count
    /\ ai_call_failed
    /\ Len(text_snippets_pool) = unique_text_count

\* C20, as stated: the system fallback font is used for an attempt, and is in
\* failed_fonts, only when every font of font_paths is in failed_fonts; while a
\* candidate has not failed, the attempt's font is a candidate of font_paths
\* that is not in failed_fonts.
C20_FallbackOnlyWhenExhausted ==
    /\ (pc = "draw" /\ current_font_path = FallbackPath)
         => font_paths \subseteq failed_fonts
    /\ FallbackPath \in failed_fonts => font_paths \subseteq failed_fonts
    /\ (pc = "draw" /\ ~(font_paths \subseteq failed_fonts))
         => current_font_path \in font_paths \ failed_fonts

\* C20, amended: the same, for a font directory that does not hold the system
\* fallback font's own file; a fallback file that is itself in font_paths is
\* used like any other candidate.
C20_FallbackOutsideOnlyWhenExhausted ==
    /\ (pc = "draw" /\ current_font_path = FallbackPath /\ FallbackPath \notin font_paths)
         => font_paths \subseteq failed_fonts
    /\ (FallbackPath \in failed_fonts /\ FallbackPath \notin font_paths)
         => font_paths \subseteq failed_fonts
    /\ (pc = "draw" /\ ~(font_paths \subseteq failed_fonts))
         => current_font_path \in font_paths \ failed_fonts

\* an attempt with the fallback font after every candidate has failed
C20_Witness ==
    /\ pc = "draw"
    /\ current_font_path = FallbackPath
    /\ FallbackPath \notin font_paths
    /\ font_paths \subseteq failed_fonts
    /\ Cardinality(font_paths) > 1

\* the request is over: redirected by the route, returned by generate_video
\* (a filename or an error), or ended by an exception that generate() reports
\* as an error (lines 759-762)
Terminated == pc \in {"rejected", "returned", "raised"}

\* line 622 is executed in this step
RetriesReset == pc = "draw" /\ pc' = "select" /\ font_retries' = 0

\* C18: every request terminates; the snippet-pool loop makes at most
\* max_generation_attempts passes; font_retries is set back to 0 inside the
\* retry loop only in the step that first puts the system fallback font into
\* failed_fonts, which never shrinks, so at most once in a request; any other
\* failed attempt adds one to font_retries, which never exceeds
\* MAX_FONT_RETRIES_PER_FRAME.
C18_RequestTerminates ==
    /\ <>Terminated
    /\ [](generation_attempts <= max_generation_attempts)
    /\ [](font_retries <= MAX_FONT_RETRIES_PER_FRAME)
    /\ [][RetriesReset => /\ FallbackPath \notin failed_fonts
                          /\ FallbackPath \in failed_fonts']_vars
    /\ [][failed_fonts \subseteq failed_fonts']_vars
    /\ [][(pc = "draw" /\ pc' # "draw" /\ ~frame_generated' /\ ~RetriesReset)
            => font_retries' = font_retries + 1]_vars

\* a request that failed a frame after font_retries had been set back for the
\* fallback font
C18_Witness ==
    /\ pc = "returned"
    /\ retval = "Failed to generate frame"
    /\ FallbackPath \notin font_paths
    /\ FallbackPath \in failed_fonts
    /\ fallback_tried
    /\ frame_num > 0

(***************************************************************************)
(* Claims about get_random_font (SpecFont)                                 *)
(***************************************************************************)
\* C9: get_random_font never raises; with candidates minus exclude non-empty
\* it returns a member of that set, otherwise (get_random_font([], exclude)
\* included) the system fallback path or None, also when the lookup throws.
C9_GetRandomFontTotal ==
    rf_result # NotCalled =>
        /\ rf_result # Raised
        /\ IF rf_paths \ rf_exclude # {}
           THEN rf_result \in rf_paths /\ rf_result \notin rf_exclude
           ELSE /\ rf_result \in {FallbackPath, None}
                /\ rf_how = "throws" => rf_result = None

\* C9 witness: get_random_font([], exclude) was called while the lookup throws
C9_Witness ==
    /\ rf_paths = {}
    /\ rf_exclude # {}
    /\ rf_how = "throws"
    /\ rf_result = None

(***************************************************************************)
(* Claims about create_text_image_frame, under SpecFrame                   *)
(***************************************************************************)
Calls == DOMAIN cf_calls

\* the call returned an image
Returned(c) == c.res.raised = ""

\* the two calls' arguments agree on everything but the fields named
SameBut(c, d, fields) ==
    \A f \in DOMAIN c.args \ fields : c.args[f] = d.args[f]

\* C1: whenever a call gets through its measurements, the highlight target box
\* is centred on the canvas (2*highlight_target_x + highlight_width_bold = width
\* and 2*highlight_target_y + highlight_height_bold = height, the heuristic
\* substitutes included), and two calls that differ only in the lines and in
\* highlight_line_index have the same target.
C1_HighlightCentred ==
    /\ \A k \in Calls :
         LET c == cf_calls[k]
         IN  c.res.measured =>
               /\ 2 * c.res.highlight_target_x + c.res.highlight_width_bold
                    = c.args.width * Unit
               /\ 2 * c.res.highlight_target_y + c.res.highlight_height_bold
                    = c.args.height * Unit
    /\ \A j, k \in Calls :
         LET c == cf_calls[j]
             d == cf_calls[k]
         IN  (/\ c.res.measured
              /\ d.res.measured
              /\ SameBut(c, d, {"text_lines", "highlight_line_index"}))
             => /\ c.res.highlight_target_x = d.res.highlight_target_x
                /\ c.res.highlight_target_y = d.res.highlight_target_y

\* a heuristic width, then a call with another number of lines and another index
C1_Witness ==
    /\ Len(cf_calls) = 2
    /\ cf_calls[1].args.font_path = "hollow"
    /\ cf_calls[1].args.highlighted_text # <<>>
    /\ cf_calls[1].res.highlight_width_bold > 0
    /\ Returned(cf_calls[1])
    /\ Returned(cf_calls[2])
    /\ SameBut(cf_calls[1], cf_calls[2], {"text_lines", "highlight_line_index"})
    /\ Len(cf_calls[1].args.text_lines) # Len(cf_calls[2].args.text_lines)
    /\ cf_calls[1].args.highlight_line_index # cf_calls[2].args.highlight_line_index

\* C7, as stated: two calls that differ only in the font and both return an
\* image draw the highlight rectangle with the same corner coordinates.
C7_SameCorners ==
    \A j, k \in Calls :
        LET c == cf_calls[j]
            d == cf_calls[k]
        IN  (/\ Returned(c)
             /\ Returned(d)
             /\ SameBut(c, d, {"font_path"}))
            => c.res.rect = d.res.rect

\* C7, amended: two calls that differ only in the font and both return an
\* image draw highlight rectangles with the same centre, the canvas centre;
\* the corners are the same when the two bold fonts measure the phrase with
\* the same width and height.
C7_SameCentre ==
    \A j, k \in Calls :
        LET c == cf_calls[j]
            d == cf_calls[k]
        IN  (/\ Returned(c)
             /\ Returned(d)
             /\ SameBut(c, d, {"font_path"}))
            => /\ c.res.rect[1] + c.res.rect[3] = c.args.width * Unit
               /\ d.res.rect[1] + d.res.rect[3] = c.args.width * Unit
               /\ c.res.rect[2] + c.res.rect[4] = c.args.height * Unit
               /\ d.res.rect[2] + d.res.rect[4] = c.args.height * Unit
               /\ (/\ c.res.highlight_width_bold = d.res.highlight_width_bold
                   /\ c.res.highlight_height_bold = d.res.highlight_height_bold)
                  => c.res.rect = d.res.rect

\* two fonts whose bold measurements differ, and so do the rectangles' corners
C7_Witness ==
    /\ Len(cf_calls) = 2
    /\ Returned(cf_calls[1])
    /\ Returned(cf_calls[2])
    /\ SameBut(cf_calls[1], cf_calls[2], {"font_path"})
    /\ cf_calls[1].args.font_path # cf_calls[2].args.font_path
    /\ cf_calls[1].res.highlight_width_bold # cf_calls[2].res.highlight_width_bold
    /\ cf_calls[1].res.rect # cf_calls[2].res.rect

\* blur_radius <= 0
RadiusNotPositive(r) == (Finite(r) /\ r.tenths <= 0) \/ r.kind = "-inf"

\* the image is the unblurred base layer with the overlay on it
Unblurred(c) == Returned(c) /\ c.res.img_blurred.path = "none"

\* the call got as far as the blur: measurements and base drawing succeeded
ReachesBlur(c) == c.res.measured /\ Face(c.args.font_path).draw_ok

\* the no-blur statement restricted to the calls whose radius satisfies ok
NoBlurWhere(ok(_)) ==
    /\ \A k \in Calls :
         LET c == cf_calls[k]
         IN  (/\ ReachesBlur(c)
              /\ ok(c.args.blur_radius)
              /\ \/ RadiusNotPositive(c.args.blur_radius)
                 \/ c.args.blur_type \notin {"gaussian", "radial"})
             => Unblurred(c)
    /\ \A j, k \in Calls :
         LET c == cf_calls[j]
             d == cf_calls[k]
         IN  (/\ ReachesBlur(c)
              /\ SameBut(c, d, {"blur_type", "blur_radius"})
              /\ ok(c.args.blur_radius)
              /\ ok(d.args.blur_radius)
              /\ c.args.blur_type = "none"
              /\ d.args.blur_type = "gaussian"
              /\ d.args.blur_radius = [kind |-> "finite", tenths |-> 0])
             => Unblurred(c) /\ Unblurred(d) /\ c.res = d.res

AnyRadius(r) == TRUE

\* C8: a call that reaches the blur step with blur_radius <= 0 (whatever the
\* blur_type) or with an unrecognised blur_type returns the unblurred base
\* layer plus overlay, and blur_type 'gaussian' with radius 0 returns the same
\* image as blur_type 'none' on the same other inputs.
C8_NoBlurPath == NoBlurWhere(AnyRadius)

\* C8 for finite radii only: there the statement holds
C8_FiniteRadiusNoBlur == NoBlurWhere(Finite)

\* C10: block_start_y + highlight_line_index * line_height = highlight_target_y,
\* the highlight line of the base layer is drawn at y = highlight_target_y, and
\* for the same N lines and font the calls with highlight_line_index 0 and N-1
\* have block_start_y differing by (N-1) * line_height and the same overlay
\* position.
C10_BlockStart ==
    /\ \A k \in Calls :
         LET c == cf_calls[k]
             idx == c.args.highlight_line_index
         IN  /\ c.res.measured =>
                  c.res.block_start_y + idx * c.res.line_height * Unit
                    = c.res.highlight_target_y
             /\ Returned(c) =>
                  c.res.img_blurred.base[idx + 1].y = c.res.highlight_target_y
    /\ \A j, k \in Calls :
         LET c == cf_calls[j]
             d == cf_calls[k]
             N == Len(c.args.text_lines)
         IN  (/\ c.res.measured
              /\ d.res.measured
              /\ SameBut(c, d, {"highlight_line_index"})
              /\ c.args.highlight_line_index = 0
              /\ d.args.highlight_line_index = N - 1)
             => /\ c.res.block_start_y - d.res.block_start_y
                     = (N - 1) * c.res.line_height * Unit
                /\ c.res.highlight_target_x = d.res.highlight_target_x
                /\ c.res.highlight_target_y = d.res.highlight_target_y
                /\ Returned(c) /\ Returned(d) => c.res.text_at = d.res.text_at

\* the same two lines with the highlight on the first and then on the last
C10_Witness ==
    /\ Len(cf_calls) = 2
    /\ Returned(cf_calls[1])
    /\ Returned(cf_calls[2])
    /\ SameBut(cf_calls[1], cf_calls[2], {"highlight_line_index"})
    /\ Len(cf_calls[1].args.text_lines) = MaxLines
    /\ cf_calls[1].args.highlight_line_index = 0
    /\ cf_calls[2].args.highlight_line_index = MaxLines - 1
    /\ cf_calls[1].res.block_start_y # cf_calls[2].res.block_start_y

\* the phrase occurs in the line at start k (from 0)
OccursAt(line, phrase, k) ==
    /\ k \in 0..(Len(line) - Len(phrase))
    /\ SubSeq(line, k + 1, k + Len(phrase)) = phrase

\* C11: when the phrase occurs in lines[highlight_line_index], the x at which
\* the base layer draws that line is highlight_target_x minus the regular-font
\* width of the prefix before the first occurrence; with the phrase at
\* position 0 it is highlight_target_x exactly.
C11_BackgroundStartX ==
    \A n \in Calls :
        LET c == cf_calls[n]
            idx == c.args.highlight_line_index
            line == c.args.text_lines[idx + 1]
            phrase == c.args.highlighted_text
        IN  c.res.measured =>
              \A k \in 0..Len(line) :
                 (/\ OccursAt(line, phrase, k)
                  /\ \A j \in 0..(k - 1) : ~OccursAt(line, phrase, j))
                 => /\ c.res.highlight_found_in_line
                    /\ c.res.bg_highlight_line_start_x
                         = c.res.highlight_target_x
                           - GetLength(Face(c.args.font_path).adv, SubSeq(line, 1, k))
                    /\ k = 0 => c.res.bg_highlight_line_start_x
                                  = c.res.highlight_target_x
                    /\ Returned(c) =>
                         c.res.img_blurred.base[idx + 1].x
                           = c.res.bg_highlight_line_start_x

\* a phrase at position 0 of its line, then the same phrase behind a prefix
C11_Witness ==
    /\ Len(cf_calls) = 2
    /\ Returned(cf_calls[1])
    /\ Returned(cf_calls[2])
    /\ cf_calls[1].args.font_path = "sans"
    /\ cf_calls[1].args.highlighted_text = <<"m">>
    /\ SameBut(cf_calls[1], cf_calls[2], {"text_lines", "highlight_line_index"})
    /\ cf_calls[1].res.highlight_found_in_line
    /\ cf_calls[1].res.bg_highlight_line_start_x = cf_calls[1].res.highlight_target_x
    /\ cf_calls[2].res.highlight_found_in_line
    /\ cf_calls[2].res.bg_highlight_line_start_x < cf_calls[2].res.highlight_target_x

\* the line is drawn horizontally centred by the regular font
Centred(op, c) ==
    2 * op.x + GetLength(Face(c.args.font_path).adv, op.text) = c.args.width * Unit

\* C15: a call whose highlight width or height is still not positive after the
\* heuristic substitution raises FontDrawError; a call that returns an image
\* has drawn its overlay with highlight_width_bold > 0 and
\* highlight_height_bold > 0.
C15_OverlayPositive ==
    \A n \in Calls :
        LET c == cf_calls[n]
        IN  c.res.measured =>
              /\ (c.res.highlight_width_bold <= 0 \/ c.res.highlight_height_bold <= 0)
                   => c.res.raised = "FontDrawError"
              /\ Returned(c) => /\ c.res.highlight_width_bold > 0
                                /\ c.res.highlight_height_bold > 0

\* C17: every call that returns an image has gone through one of the blur
\* paths and then drawn the highlight rectangle around the target box and the
\* phrase at (highlight_target_x, highlight_target_y); when the phrase is not
\* in lines[highlight_line_index], that line is drawn centred on the base
\* layer, and on the sharp layer of the radial path.
C17_OverlayOnEveryPath ==
    \A n \in Calls :
        LET c == cf_calls[n]
            idx == c.args.highlight_line_index
            padding == c.args.font_size * (Unit \div 10)
            layer == c.res.img_blurred
        IN  Returned(c) =>
              /\ layer.path \in {"gaussian_padded", "gaussian_direct", "radial", "none"}
              /\ Len(layer.base) = Len(c.args.text_lines)
              /\ c.res.rect = << c.res.highlight_target_x - padding,
                                 c.res.highlight_target_y - padding,
                                 c.res.highlight_target_x + c.res.highlight_width_bold
                                   + padding,
                                 c.res.highlight_target_y + c.res.highlight_height_bold
                                   + padding >>
              /\ c.res.text_at = <<c.res.highlight_target_x, c.res.highlight_target_y>>
              /\ 2 * c.res.highlight_target_x + c.res.highlight_width_bold
                   = c.args.width * Unit
              /\ ~c.res.highlight_found_in_line =>
                   /\ Centred(layer.base[idx + 1], c)
                   /\ layer.path = "radial" =>
                        /\ Len(layer.sharp) = Len(c.args.text_lines)
                        /\ Centred(layer.sharp[idx + 1], c)

\* a radial frame whose phrase is not in the highlight line, then the same
\* arguments with another blur policy
C17_Witness ==
    /\ Len(cf_calls) = 2
    /\ Returned(cf_calls[1])
    /\ Returned(cf_calls[2])
    /\ ~cf_calls[1].res.highlight_found_in_line
    /\ cf_calls[1].args.highlighted_text # <<>>
    /\ cf_calls[1].res.img_blurred.path = "radial"
    /\ cf_calls[2].res.img_blurred.path \in {"gaussian_padded", "none"}
    /\ cf_calls[1].res.rect = cf_calls[2].res.rect

(***************************************************************************)
(* Claims about the text sources, under SpecText                           *)
(***************************************************************************)
\* the three conditions of a snippet for the phrase
ValidSnippet(lines, index, phrase) ==
    /\ 0 <= index
    /\ index < Len(lines)
    /\ \E k \in 0..Len(lines[index + 1]) : OccursAt(lines[index + 1], phrase, k)
    /\ Len(lines) >= min_lines

\* C12: a call of a text source either returns a snippet with
\* 0 <= highlight_index < len(lines), the phrase a substring of
\* lines[highlight_index] and len(lines) >= min_lines, or returns the failure
\* value (None, -1), an exception inside the AI call included; the snippets
\* appended to the pool satisfy the three conditions.
C12_SourceContract ==
    tx_called =>
        /\ \/ tx_result = Failure
           \/ /\ ~tx_result.lines_none
              /\ tx_result.hl_index # 0 - 1
              /\ ValidSnippet(tx_result.lines, tx_result.hl_index, tx_phrase)
        /\ \A n \in DOMAIN tx_pool :
              ValidSnippet(tx_pool[n].lines, tx_pool[n].highlight_index, tx_phrase)

\* an AI answer with a blank line, whose highlight line is not the first
C12_Witness ==
    /\ tx_called
    /\ tx_source = "mistral"
    /\ Len(tx_input.content) > Len(tx_result.lines)
    /\ tx_result.hl_index > 0
    /\ Len(tx_pool) = 1

====
